---- MODULE Spec2Model ----
(***************************************************************************)
(* Model of src/app.py: a Flask handler, channel_mirror, that mirrors one  *)
(* YouTube channel.  One request runs at a time (section 5 of the spec);   *)
(* a request is a sequence of steps, one per external call of the handler. *)
(* The persistent state is the Gist file 'cache.json' and the local file   *)
(* cache_local.json.  Every external call (GitHub, the YouTube API, the    *)
(* file system) may fail; its outcome is chosen by \E.  Spec serves         *)
(* MaxRequests requests; SpecReplay serves one more and keeps, in           *)
(* lastRender, what the previous request read and rendered.                *)
(*                                                                         *)
(* Abstractions: a video item keeps video_id, title and published_at (the  *)
(* description and the thumbnail are copied through unchanged by the code  *)
(* and read only by the template); published_at is a number whose order is *)
(* the order of the ISO-8601 strings; a title is a sequence of characters. *)
(***************************************************************************)
EXTENDS Integers, Sequences, FiniteSets, TLC

\* ------------------------------------------------------------------ bounds
NumVideos == 2      \* videos of the channel, video_id in 1..NumVideos
MaxPages == 2       \* the API hands out at most this many playlist pages
MaxRequests == 2    \* HTTP requests served in one behaviour of Spec
BatchSize == 1      \* scaled stand-in for the batch step 50 of app.py:218-225

\* ------------------------------------------------------- program constants
ShortThreshold == 65        \* dur_seconds <= 65, dur <= 65
DefaultDuration == 999      \* duration_map.get(v['video_id'], 999)
MaxResults == 50            \* maxResults=50

\* ------------------------------------------------------------ Python values
None == <<>>
Some(x) == <<x>>

\* truthiness of a page token: `if not next_page_token: break`
NoneToken == "<None>"
TruthyLoose(tok) == tok # NoneToken
Truthy(tok) == tok \notin {NoneToken, ""}

\* ------------------------------------------------------------- the channel
CHANNEL_TITLE == "John Locke Cena"
CHANNEL_DESCRIPTION == "canal"

Titles ==
  << <<"#", "S", "h", "o", "r", "t", "s">>,
     <<"v", "l", "o", "g">>,
     <<"S", "h", "o", "r", "t", " ", "f", "i", "l", "m">>,
     <<"S", "H", "O", "R", "T", ":", " ", "x">> >>

\* ISO-8601 durations as the API reports them: PT1M6S, PT1M5S, PT10M, PT30S
Durations ==
  << [H |-> 0, M |-> 1, S |-> 6],
     [H |-> 0, M |-> 1, S |-> 5],
     [H |-> 0, M |-> 10, S |-> 0],
     [H |-> 0, M |-> 0, S |-> 30] >>

VideoIds == 1..NumVideos
TitleOf(id) == Titles[((id - 1) % Len(Titles)) + 1]
DurationOf(id) == Durations[((id - 1) % Len(Durations)) + 1]
PublishedAt(id) == 2 * id

\* the video dict built at app.py:141-147
Video(id) == [video_id |-> id, title |-> TitleOf(id), published_at |-> PublishedAt(id)]

\* isodate.parse_duration(...).total_seconds()
parse_duration(d) == d.H * 3600 + d.M * 60 + d.S

\* ------------------------------------------------------ title heuristic
LowerChar(c) ==
  CASE c = "S" -> "s" [] c = "H" -> "h" [] c = "O" -> "o"
    [] c = "R" -> "r" [] c = "T" -> "t" [] OTHER -> c
lower(s) == [i \in 1..Len(s) |-> LowerChar(s[i])]

\* Python's `x in s` for strings
Contains(s, x) ==
  \E i \in 0..(Len(s) - Len(x)) : \A j \in 1..Len(x) : s[i + j] = x[j]

Keywords ==
  { <<"#", "s", "h", "o", "r", "t", "s">>,
    <<"#", "s", "h", "o", "r", "t">>,
    <<"s", "h", "o", "r", "t", "s">>,
    <<"s", "h", "o", "r", "t", ":">> }

\* any(x in v['title'].lower() for x in [...])
HasShortKeyword(title) == \E x \in Keywords : Contains(lower(title), x)

\* ------------------------------------------------------ duration threshold
IsShortDurationStrict(dur) == dur < ShortThreshold
IsShortDuration(dur) == dur <= ShortThreshold

\* ------------------------------------------------------------- sequences
RECURSIVE SetToSeq(_)
SetToSeq(S) ==
  IF S = {} THEN <<>>
  ELSE LET m == CHOOSE x \in S : \A y \in S : x <= y
       IN <<m>> \o SetToSeq(S \ {m})

\* list.sort(key=published_at, reverse=True): stable, newest first
RECURSIVE InsertDesc(_, _)
InsertDesc(v, s) ==
  IF s = <<>> THEN <<v>>
  ELSE IF Head(s).published_at >= v.published_at
       THEN <<Head(s)>> \o InsertDesc(v, Tail(s))
       ELSE <<v>> \o s
RECURSIVE SortDesc(_)
SortDesc(s) ==
  IF s = <<>> THEN <<>>
  ELSE InsertDesc(s[Len(s)], SortDesc(SubSeq(s, 1, Len(s) - 1)))

Ids(s) == {s[i].video_id : i \in 1..Len(s)}
Count(s, v) == Cardinality({i \in 1..Len(s) : s[i] = v})

\* ------------------------------------------------------------- JSON, files
\* json.dumps / json.dump: the text of a document; a write that is cut short
\* leaves text that does not parse.
json_dumps(d) == <<"json", d>>
Garbage == <<"garbage">>
\* json.loads / json.load: Some(document), or None when it raises
json_loads(t) == IF t[1] = "json" THEN Some(t[2]) ELSE None

WriteOutcomes == {"ok", "denied", "partial"}
\* open(LOCAL_CACHE_FILE, 'w') + json.dump: "denied" raises in open and
\* leaves the file alone, "partial" raises after the file was truncated
WriteFile(file, text, outcome) ==
  CASE outcome = "ok" -> Some(text)
    [] outcome = "denied" -> file
    [] OTHER -> Some(Garbage)

\* ------------------------------------------------------------- gist_get
\* try-block of gist_get (app.py:32-45): GET, status 200, files['cache.json'],
\* json.loads.  Some(cache) when all of it worked.
GistRead(gistFile, netOk) ==
  IF netOk /\ gistFile # None THEN json_loads(gistFile[1]) ELSE None

\* fallback of gist_get (app.py:48-57)
LocalRead(file, readOk) ==
  IF file # None /\ readOk THEN json_loads(file[1]) ELSE None

\* gist_get as a whole: the document returned (or None) and the local file it
\* leaves.  The backup write sits inside the same try as the Gist read, so a
\* failing backup write ends in the except branch and the fallback runs.
gist_get_NoFallback(gistFile, file, netOk, backup, readOk) ==
  LET fromGist == GistRead(gistFile, netOk)
      file1 == IF fromGist # None THEN WriteFile(file, json_dumps(fromGist[1]), backup)
               ELSE file
  IN  [result |-> fromGist, local |-> file1]
gist_get(gistFile, file, netOk, backup, readOk) ==
  LET fromGist == GistRead(gistFile, netOk)
      file1 == IF fromGist # None THEN WriteFile(file, json_dumps(fromGist[1]), backup)
               ELSE file
  IN  IF fromGist # None /\ backup = "ok"
      THEN [result |-> fromGist, local |-> file1]
      ELSE [result |-> LocalRead(file1, readOk), local |-> file1]

\* ------------------------------------------------------------ gist_update
\* the stores after gist_update(cache_data) and whether it raised
gist_update_Unchecked(cache_data, gistFile, file, patchOk, localW) ==
  [gist |-> IF patchOk THEN Some(json_dumps(cache_data)) ELSE gistFile,
   local |-> WriteFile(file, json_dumps(cache_data), localW),
   raised |-> FALSE]
gist_update(cache_data, gistFile, file, patchOk, localW) ==
  [gist |-> IF patchOk THEN Some(json_dumps(cache_data)) ELSE gistFile,
   local |-> WriteFile(file, json_dumps(cache_data), localW),
   raised |-> ~patchOk]

\* ---------------------------------------------------------- cache documents
\* app.py:202-203: the cached document with the two lists replaced
HitCacheDocReordered(c, sh, reg) ==
  [c EXCEPT !.shorts = sh, !.regular_videos = reg, !.videos = reg \o sh]
HitCacheDoc(c, sh, reg) ==
  [c EXCEPT !.shorts = sh, !.regular_videos = reg]

\* app.py:233-240
MissCacheDocShown(title, description, reg, sh, now) ==
  [channel_title |-> title, channel_description |-> description,
   videos |-> reg, shorts |-> sh, regular_videos |-> reg, last_update |-> now]
MissCacheDoc(title, description, reg, sh, now) ==
  [channel_title |-> title, channel_description |-> description,
   videos |-> reg \o sh, shorts |-> sh, regular_videos |-> reg, last_update |-> now]

\* `cache and 'videos' in cache and cache['videos']`
IsHit(c) == c # None /\ c[1].videos # <<>>

\* the template's view of a list of videos (app.py:290-319)
Cards(s) == [i \in 1..Len(s) |-> [video_id |-> s[i].video_id, title |-> s[i].title,
                                    date |-> s[i].published_at]]
\* render_template_string(html, **context), app.py:337-344
Render(title, description, c) ==
  [channel_title |-> title, channel_description |-> description,
   regular_videos |-> Cards(c.regular_videos), shorts |-> Cards(c.shorts)]

\* ------------------------------------------------------------------ state
VARIABLES
  gist,             \* the Gist's file cache.json: None or Some(text)
  localFile,        \* cache_local.json: None or Some(text)
  reqs,             \* requests started so far; also the clock of utcnow()
  pc,               \* where the running request stands, "idle" between requests
  cacheRead,        \* what gist_get returned to this request
  cache,            \* channel_mirror's variable cache
  channel,          \* channel_title and channel_description, once known
  all_videos, shorts, regular_videos,
  idx,              \* loop position of the classification loops
  videos, next_page_token,      \* get_all_videos' locals
  pages, lastItems, \* pages requested by get_all_videos, items of the last one
  lookups,          \* the duration lookups of this request and how they ended
  trace,            \* the external calls of this request, in order
  getLog,           \* the gist_get call of the last step, if it was one
  updLog,           \* the gist_update call of the last step, if it was one
  lastWritten,      \* the document of a gist_update that returned, until the next gist_get
  page,             \* the rendered page
  lastRender        \* document read and page rendered by the last request that rendered

vars == <<gist, localFile, reqs, pc, cacheRead, cache, channel, all_videos, shorts,
          regular_videos, idx, videos, next_page_token, pages, lastItems, lookups,
          trace, getLog, updLog, lastWritten, page, lastRender>>

stores == <<gist, localFile>>
locals == <<cacheRead, cache, channel, all_videos, shorts, regular_videos, idx,
            videos, next_page_token, pages, lastItems, lookups>>
paging == <<videos, next_page_token, pages, lastItems>>
lists == <<all_videos, shorts, regular_videos, idx>>

Tokens == {NoneToken, "", "CAUQAA"}
LookupFailures == {"raise", "empty"}

Init ==
  /\ gist = None /\ localFile = None /\ reqs = 0 /\ pc = "idle"
  /\ cacheRead = None /\ cache = None /\ channel = None
  /\ all_videos = <<>> /\ shorts = <<>> /\ regular_videos = <<>> /\ idx = 0
  /\ videos = <<>> /\ next_page_token = NoneToken /\ pages = 0 /\ lastItems = 0
  /\ lookups = {} /\ trace = <<>> /\ getLog = None /\ updLog = None
  /\ lastWritten = None /\ page = None /\ lastRender = None

\* googleapiclient.discovery.build fetches the discovery document and may raise
\* before anything else ran (app.py:160-166)
BuildFailsUpTo(cap) ==
  /\ pc = "idle" /\ reqs < cap
  /\ reqs' = reqs + 1
  /\ pc' = "failed"
  /\ trace' = <<"build">>
  /\ getLog' = None /\ updLog' = None
  /\ UNCHANGED <<stores, locals, lastWritten, page, lastRender>>

\* app.py:160-180 and 206-208: build, gist_get, and the choice of the path
StartRequestUpTo(cap) ==
  \E netOk \in BOOLEAN, backup \in WriteOutcomes, readOk \in BOOLEAN :
    LET g == gist_get(gist, localFile, netOk, backup, readOk) IN
    /\ pc = "idle" /\ reqs < cap
    /\ reqs' = reqs + 1
    /\ localFile' = g.local
    /\ cacheRead' = g.result
    /\ cache' = g.result
    /\ getLog' = Some([after |-> lastWritten, net |-> netOk, backup |-> backup,
                       readOk |-> readOk])
    /\ lastWritten' = None
    /\ trace' = <<"build", "gist_get">>
    /\ IF IsHit(g.result)
       THEN /\ channel' = Some([title |-> g.result[1].channel_title,
                                description |-> g.result[1].channel_description])
            /\ all_videos' = g.result[1].videos
            /\ idx' = 1
            /\ pc' = "hit_loop"
       ELSE /\ channel' = None
            /\ all_videos' = <<>>
            /\ idx' = 0
            /\ pc' = "details"
    /\ shorts' = <<>> /\ regular_videos' = <<>> /\ lookups' = {}
    /\ updLog' = None
    /\ UNCHANGED <<gist, paging, page, lastRender>>

\* one turn of `for v in all_videos` on the cache-hit path (app.py:181-199)
ClassifyCached ==
  \E api \in {"ok"} \cup LookupFailures :
    LET v == all_videos[idx]
        dur == parse_duration(DurationOf(v.video_id))
        short == IF api = "ok" THEN IsShortDuration(dur) ELSE HasShortKeyword(v.title)
    IN
    /\ pc = "hit_loop"
    /\ shorts' = IF short THEN Append(shorts, v) ELSE shorts
    /\ regular_videos' = IF short THEN regular_videos ELSE Append(regular_videos, v)
    /\ lookups' = lookups \cup {[id |-> v.video_id, outcome |-> api,
                                 secs |-> IF api = "ok" THEN dur ELSE -1]}
    /\ trace' = Append(trace, "videos.list")
    /\ idx' = idx + 1
    /\ pc' = IF idx = Len(all_videos) THEN "hit_update" ELSE "hit_loop"
    /\ getLog' = None /\ updLog' = None
    /\ UNCHANGED <<stores, reqs, cacheRead, cache, channel, all_videos, paging,
                   lastWritten, page, lastRender>>

\* app.py:202-204
UpdateCacheHit ==
  \E patchOk \in BOOLEAN, localW \in WriteOutcomes :
    LET doc == HitCacheDoc(cache[1], shorts, regular_videos)
        u == gist_update(doc, gist, localFile, patchOk, localW)
    IN
    /\ pc = "hit_update"
    /\ cache' = Some(doc)
    /\ gist' = u.gist /\ localFile' = u.local
    /\ updLog' = Some([patch |-> patchOk, localW |-> localW, raised |-> u.raised])
    /\ lastWritten' = IF u.raised THEN None ELSE Some(doc)
    /\ trace' = Append(trace, "gist_update")
    /\ pc' = IF u.raised THEN "failed" ELSE "render"
    /\ getLog' = None
    /\ UNCHANGED <<reqs, cacheRead, channel, lists, paging, lookups, page, lastRender>>

\* get_channel_details (app.py:93-107, called at 209)
GetChannelDetails ==
  \E r \in {"ok", "raise", "empty"} :
    /\ pc = "details"
    /\ trace' = Append(trace, "channels.list")
    /\ IF r = "ok"
       THEN /\ channel' = Some([title |-> CHANNEL_TITLE, description |-> CHANNEL_DESCRIPTION])
            /\ pc' = "paging"
       ELSE /\ channel' = channel
            /\ pc' = "failed"
    /\ videos' = <<>> /\ next_page_token' = NoneToken /\ pages' = 0 /\ lastItems' = 0
    /\ getLog' = None /\ updLog' = None
    /\ UNCHANGED <<stores, reqs, cacheRead, cache, lists, lookups, lastWritten, page,
                   lastRender>>

\* one turn of `while True` in get_all_videos (app.py:123-152), and the sort and
\* return (155-156) when it was the last one
FetchPage ==
  \E items \in SUBSET (VideoIds \ Ids(videos)), tok \in Tokens :
    LET new == SetToSeq(items)
        got == videos \o [i \in 1..Len(new) |-> Video(new[i])]
    IN
    /\ pc = "paging"
    /\ Cardinality(items) <= MaxResults
    /\ tok = "CAUQAA" => pages + 1 < MaxPages
    /\ trace' = Append(trace, "playlistItems.list")
    /\ pages' = pages + 1
    /\ lastItems' = Cardinality(items)
    /\ next_page_token' = tok
    /\ IF Truthy(tok)
       THEN /\ videos' = got
            /\ pc' = "paging"
            /\ UNCHANGED <<all_videos, idx>>
       ELSE /\ videos' = <<>>
            /\ all_videos' = SortDesc(got)
            /\ idx' = 0
            /\ pc' = IF got = <<>> THEN "miss_update" ELSE "batches"
    /\ getLog' = None /\ updLog' = None
    /\ UNCHANGED <<stores, reqs, cacheRead, cache, channel, shorts, regular_videos,
                   lookups, lastWritten, page, lastRender>>

\* request.execute() raises inside get_all_videos
FetchPageFails ==
  /\ pc = "paging"
  /\ trace' = Append(trace, "playlistItems.list")
  /\ pc' = "failed"
  /\ getLog' = None /\ updLog' = None
  /\ UNCHANGED <<stores, reqs, locals, lastWritten, page, lastRender>>

Min(a, b) == IF a <= b THEN a ELSE b

\* one turn of `for i in range(0, len(video_ids_batch), 50)` (app.py:218-230);
\* the response holds the durations of the ids in `found`
ClassifyBatch ==
  \E found \in SUBSET Ids(SubSeq(all_videos, idx + 1, Min(idx + BatchSize, Len(all_videos)))) :
    LET batch == SubSeq(all_videos, idx + 1, Min(idx + BatchSize, Len(all_videos)))
        dur(v) == IF v.video_id \in found THEN parse_duration(DurationOf(v.video_id))
                  ELSE DefaultDuration
        IsShort(v) == IsShortDuration(dur(v))
        IsRegular(v) == ~IsShortDuration(dur(v))
    IN
    /\ pc = "batches"
    /\ shorts' = shorts \o SelectSeq(batch, IsShort)
    /\ regular_videos' = regular_videos \o SelectSeq(batch, IsRegular)
    /\ lookups' = lookups \cup
         {[id |-> batch[i].video_id,
           outcome |-> IF batch[i].video_id \in found THEN "ok" ELSE "missing",
           secs |-> IF batch[i].video_id \in found THEN dur(batch[i]) ELSE -1]
          : i \in 1..Len(batch)}
    /\ trace' = Append(trace, "videos.list")
    /\ idx' = idx + BatchSize
    /\ pc' = IF idx + BatchSize >= Len(all_videos) THEN "miss_update" ELSE "batches"
    /\ getLog' = None /\ updLog' = None
    /\ UNCHANGED <<stores, reqs, cacheRead, cache, channel, all_videos, paging,
                   lastWritten, page, lastRender>>

\* youtube.videos().list(...).execute() raises at app.py:220: nothing catches it
ClassifyBatchFails ==
  LET batch == SubSeq(all_videos, idx + 1, Min(idx + BatchSize, Len(all_videos))) IN
  /\ pc = "batches"
  /\ lookups' = lookups \cup
       {[id |-> batch[i].video_id, outcome |-> "raise", secs |-> -1] : i \in 1..Len(batch)}
  /\ trace' = Append(trace, "videos.list")
  /\ pc' = "failed"
  /\ getLog' = None /\ updLog' = None
  /\ UNCHANGED <<stores, reqs, cacheRead, cache, channel, lists, paging, lastWritten,
                 page, lastRender>>

\* app.py:232-241
UpdateCacheMiss ==
  \E patchOk \in BOOLEAN, localW \in WriteOutcomes :
    LET doc == MissCacheDoc(channel[1].title, channel[1].description,
                            regular_videos, shorts, reqs)
        u == gist_update(doc, gist, localFile, patchOk, localW)
    IN
    /\ pc = "miss_update"
    /\ all_videos' = regular_videos
    /\ cache' = Some(doc)
    /\ gist' = u.gist /\ localFile' = u.local
    /\ updLog' = Some([patch |-> patchOk, localW |-> localW, raised |-> u.raised])
    /\ lastWritten' = IF u.raised THEN None ELSE Some(doc)
    /\ trace' = Append(trace, "gist_update")
    /\ pc' = IF u.raised THEN "failed" ELSE "render"
    /\ getLog' = None
    /\ UNCHANGED <<reqs, cacheRead, channel, shorts, regular_videos, idx, paging,
                   lookups, page, lastRender>>

\* app.py:337-344
RenderPage ==
  /\ pc = "render"
  /\ page' = Some(Render(channel[1].title, channel[1].description, cache[1]))
  /\ trace' = Append(trace, "render")
  /\ pc' = "done"
  /\ getLog' = None /\ updLog' = None
  /\ UNCHANGED <<stores, reqs, locals, lastWritten, lastRender>>

\* the response leaves: the page, or the 500 of an uncaught exception.  With
\* `record` the history variable lastRender keeps what the request read and
\* rendered, for the comparison of two requests.
RespondRecording(record) ==
  /\ pc \in {"done", "failed"}
  /\ lastRender' = IF record /\ pc = "done"
                   THEN Some([doc |-> cacheRead, page |-> page[1]])
                   ELSE lastRender
  /\ pc' = "idle"
  /\ cacheRead' = None /\ cache' = None /\ channel' = None
  /\ all_videos' = <<>> /\ shorts' = <<>> /\ regular_videos' = <<>> /\ idx' = 0
  /\ videos' = <<>> /\ next_page_token' = NoneToken /\ pages' = 0 /\ lastItems' = 0
  /\ lookups' = {} /\ trace' = <<>> /\ page' = None
  /\ getLog' = None /\ updLog' = None
  /\ UNCHANGED <<stores, reqs, lastWritten>>

BuildFails == BuildFailsUpTo(MaxRequests)
StartRequest == StartRequestUpTo(MaxRequests)
Respond == RespondRecording(FALSE)

Next ==
  \/ BuildFails
  \/ StartRequest
  \/ ClassifyCached
  \/ UpdateCacheHit
  \/ GetChannelDetails
  \/ FetchPage
  \/ FetchPageFails
  \/ ClassifyBatch
  \/ ClassifyBatchFails
  \/ UpdateCacheMiss
  \/ RenderPage
  \/ Respond

Spec == Init /\ [][Next]_vars

\* The same program serving one request more, with the render history kept.
ReplayBuildFails == BuildFailsUpTo(MaxRequests + 1)
ReplayStartRequest == StartRequestUpTo(MaxRequests + 1)
ReplayRespond == RespondRecording(TRUE)

NextReplay ==
  \/ ReplayBuildFails
  \/ ReplayStartRequest
  \/ ClassifyCached
  \/ UpdateCacheHit
  \/ GetChannelDetails
  \/ FetchPage
  \/ FetchPageFails
  \/ ClassifyBatch
  \/ ClassifyBatchFails
  \/ UpdateCacheMiss
  \/ RenderPage
  \/ ReplayRespond

SpecReplay == Init /\ [][NextReplay]_vars

\* ================================================================== claims
IsHitRequest == IsHit(cacheRead)
ApiCalls == {"channels.list", "playlistItems.list", "videos.list"}

\* the documents held by the two stores
StoredDocs ==
  {f[1][2] : f \in {x \in {gist, localFile} : x # None /\ x # Some(Garbage)}}

Partition(d) ==
  /\ \A i \in 1..Len(d.videos) :
       Count(d.shorts, d.videos[i]) + Count(d.regular_videos, d.videos[i]) = 1
  /\ \A i \in 1..Len(d.shorts) : Count(d.videos, d.shorts[i]) >= 1
  /\ \A i \in 1..Len(d.regular_videos) : Count(d.videos, d.regular_videos[i]) >= 1

\* C1: in every document that gist_update is given (cache-hit and cache-miss
\* path) and in every document a store holds, 'shorts' and 'regular_videos'
\* partition 'videos': each item of 'videos' is in exactly one of them and they
\* hold nothing else.
C1_Partition ==
  /\ \A d \in StoredDocs : Partition(d)
  /\ updLog # None => Partition(cache[1])

\* a cache-hit request has rewritten the Gist with both lists non-empty
C1_Witness ==
  /\ pc = "render" /\ IsHitRequest
  /\ gist = Some(json_dumps(cache[1]))
  /\ cache[1].shorts # <<>> /\ cache[1].regular_videos # <<>>

C3_KeywordFallback ==
  \A e \in lookups :
    e.outcome # "ok" =>
      IF HasShortKeyword(TitleOf(e.id))
      THEN e.id \in Ids(shorts) /\ e.id \notin Ids(regular_videos)
      ELSE e.id \in Ids(regular_videos) /\ e.id \notin Ids(shorts)

\* C4 (as claimed): the gist_get that follows a gist_update(d) that returned
\* returns d, whatever reads and writes fail.
C4_RoundTrip ==
  (getLog # None /\ getLog[1].after # None) => cacheRead = getLog[1].after

\* C4 (amended): the gist_get that follows a gist_update(d) that returned
\* returns d when its Gist read and its backup write both succeed; when one of
\* them fails it returns what the local file yields (None if that fails too),
\* which is d only if the local file holds d.
C4_RoundTripAmended ==
  (getLog # None /\ getLog[1].after # None) =>
    /\ (getLog[1].net /\ getLog[1].backup = "ok") => cacheRead = getLog[1].after
    /\ ~(getLog[1].net /\ getLog[1].backup = "ok") =>
         /\ cacheRead # None => (localFile # None /\ cacheRead = json_loads(localFile[1]))
         /\ cacheRead = getLog[1].after =>
              localFile = Some(json_dumps(getLog[1].after[1]))

\* a document with videos was written and the next gist_get returned it
C4_Witness ==
  /\ getLog # None /\ getLog[1].after # None
  /\ getLog[1].net /\ getLog[1].backup = "ok"
  /\ IsHit(cacheRead) /\ cacheRead = getLog[1].after

\* C5: get_all_videos goes on paging only after a response with a token, and
\* leaves the loop only after a response without one (None or ""), whatever
\* the number of items of that response.
C5_PagingStops ==
  /\ (pc = "paging" /\ pages > 0) => next_page_token \notin {NoneToken, ""}
  /\ pc \in {"batches", "miss_update"} => (pages >= 1 /\ next_page_token \in {NoneToken, ""})
  /\ (pages >= 1 /\ next_page_token \notin {NoneToken, ""}) => pc \in {"paging", "failed"}

\* the second page had no item and an empty token, and the loop was left
C5_Witness ==
  /\ pc = "batches" /\ pages = 2 /\ lastItems = 0 /\ next_page_token = ""

\* C6 (as claimed): a cache-hit request calls neither the video-platform API
\* nor gist_update; a cache-miss request has fetched, classified and written
\* when it renders.
C6_HitUsesCache ==
  /\ IsHitRequest => \A i \in 1..Len(trace) : trace[i] \notin ApiCalls \cup {"gist_update"}
  /\ (pc = "render" /\ ~IsHitRequest) =>
       /\ trace[3] = "channels.list" /\ trace[4] = "playlistItems.list"
       /\ trace[Len(trace)] = "gist_update"

\* C7 (as claimed): two requests that read the same document from the cache
\* render the same page content.
C7_SameDocSamePage ==
  (pc = "done" /\ lastRender # None /\ cacheRead # None /\ lastRender[1].doc = cacheRead)
    => page[1] = lastRender[1].page

\* C8 (as claimed): gist_update raises exactly when neither the Gist PATCH nor
\* the local-file write succeeded.
C8_RaisesIffNoStore ==
  updLog # None =>
    (updLog[1].raised <=> (~updLog[1].patch /\ updLog[1].localW # "ok"))

\* the Gist read of the gist_get just made succeeded: 200, cache.json present
StoreReadOk == getLog[1].net /\ gist # None /\ gist # Some(Garbage)

\* C9 (as claimed): gist_get returns the Gist's document when the store read
\* succeeds and None when it fails, and None is handled as a cache miss.
C9_NoneOnFailure ==
  getLog # None =>
    /\ StoreReadOk => cacheRead = Some(gist[1][2])
    /\ ~StoreReadOk => cacheRead = None
    /\ cacheRead = None => pc = "details"

\* C9 (amended): gist_get returns the Gist's document when the store read and
\* the backup write succeed; when one of them fails it returns the document of
\* the local file if that file exists, can be read and parses, and None
\* otherwise; None is handled as a cache miss.
C9_FallbackAmended ==
  getLog # None =>
    /\ (StoreReadOk /\ getLog[1].backup = "ok") => cacheRead = Some(gist[1][2])
    /\ ~(StoreReadOk /\ getLog[1].backup = "ok") =>
         cacheRead = IF localFile # None /\ localFile # Some(Garbage) /\ getLog[1].readOk
                     THEN Some(localFile[1][2]) ELSE None
    /\ cacheRead = None => pc = "details"

\* the Gist read failed and the local file served a document with videos
C9_Witness ==
  /\ getLog # None /\ ~StoreReadOk /\ IsHit(cacheRead) /\ pc = "hit_loop"

FrameFields(d) == <<d.videos, d.channel_title, d.channel_description, d.last_update>>

\* C10 (as claimed): once the Gist holds a document with videos, no step changes
\* its 'videos', 'channel_title', 'channel_description' or 'last_update'.
C10_FrameForever ==
  [][(gist # None /\ gist[1][2].videos # <<>>) =>
       (gist' # None /\ FrameFields(gist'[1][2]) = FrameFields(gist[1][2]))]_vars

\* C10 (amended): a cache-hit request gives gist_update a document whose
\* 'videos', 'channel_title', 'channel_description' and 'last_update' are those
\* of the document gist_get returned, the stores change to nothing else, and the
\* request calls neither get_channel_details nor get_all_videos.
C10_FrameOnHit ==
  [][IsHitRequest =>
       /\ pc = "hit_update" =>
            /\ FrameFields(cache'[1]) = FrameFields(cacheRead[1])
            /\ gist' # gist => gist' = Some(json_dumps(cache'[1]))
            /\ localFile' # localFile =>
                 localFile' \in {Some(json_dumps(cache'[1])), Some(Garbage)}
       /\ pc # "hit_update" => UNCHANGED stores
       /\ \A i \in 1..Len(trace') :
            trace'[i] \notin {"channels.list", "playlistItems.list"}]_vars

\* a cache-hit request stored a document whose lists differ from those it read
C10_Witness ==
  /\ pc = "render" /\ IsHitRequest
  /\ gist = Some(json_dumps(cache[1]))
  /\ cache[1].shorts # cacheRead[1].shorts
  /\ FrameFields(cache[1]) = FrameFields(cacheRead[1])

====
